---- MODULE Spec2Model ----
(***************************************************************************)
(* The aggregation engines of the two dashboards of the repository:        *)
(*   stack_overflow_dev_survey_app.py  (have/want survey metrics)          *)
(*   rural_investments_app.py          (grouped ratio aggregate)           *)
(*                                                                         *)
(* A polars data frame is a record [columns, rows]: the column names in    *)
(* order, and the rows in order, each row a function from column name to   *)
(* cell.  A cell is Null or Some(v).  A polars string is the sequence of   *)
(* its characters; a float is Fin(n, d), NaN or Inf(sign).                 *)
(* polars leaves the row order of group_by and the order of ties of sort   *)
(* unspecified; the model emits groups in order of first appearance and    *)
(* sorts stably.  No property below reads the order of rows.               *)
(***************************************************************************)
EXTENDS Integers, Sequences, FiniteSets, TLC

VARIABLES
    df,             \* survey app: the global data frame (line 181)
    pc,             \* "idle", or "done" while a callback's result is delivered
    request,        \* arguments of the running create_plot_data call
    have_df,        \* explode_column(df, have_column) of that call
    want_df,        \* explode_column(df, want_column) of that call
    have_want_df,   \* create_have_want_df of that call
    exclusion_df,   \* the exclusion frame of that call (line 145 / 161)
    metric_df,      \* plot_data before the exclusion filter of line 162
    plot_data,      \* plot_data after the exclusion filter of line 162
    pivot_data,     \* the pivot of line 164 (grouped calls only)
    inv_df,         \* investments app: the global data frame df
    inv_request,    \* investments app: inputs of the running callback
    inv_out         \* investments app: the figures the callback returns

vars == <<df, pc, request, have_df, want_df, have_want_df, exclusion_df,
          metric_df, plot_data, pivot_data, inv_df, inv_request, inv_out>>

---------------------------------------------------------------------------
(* Cells, strings, floats *)

Null == <<>>

Some(v) == <<v>>

IsNull(c) == c = <<>>

Val(c) == c[1]

Range(s) == {s[i] : i \in 1..Len(s)}

\* pl.coalesce([a, b]): the first non-null of the two
Coalesce(a, b) == IF IsNull(a) THEN b ELSE a

RECURSIVE GCD(_, _)
GCD(a, b) == IF b = 0 THEN a ELSE GCD(b, a % b)

Abs(n) == IF n < 0 THEN -n ELSE n

\* a finite Float64 n/d, d > 0, in lowest terms
Fin(n, d) ==
    LET g == GCD(Abs(n), d)
    IN  [k |-> "fin", n |-> n \div g, d |-> d \div g]

NaN == [k |-> "nan", n |-> 0, d |-> 1]

\* +inf (s = 1) or -inf (s = -1)
Inf(s) == [k |-> "inf", n |-> s, d |-> 1]

Sign(n) == IF n > 0 THEN 1 ELSE IF n < 0 THEN -1 ELSE 0

\* IEEE-754 division as polars' true division performs it on Float64
FDiv(x, y) ==
    IF x.k = "nan" \/ y.k = "nan" THEN NaN
    ELSE IF x.k = "inf" THEN
        (IF y.k = "inf" THEN NaN
         ELSE Inf(x.n * (IF y.n < 0 THEN -1 ELSE 1)))
    ELSE IF y.k = "inf" THEN Fin(0, 1)
    ELSE IF y.n = 0 THEN (IF x.n = 0 THEN NaN ELSE Inf(Sign(x.n)))
    ELSE Fin(x.n * y.d * Sign(y.n), x.d * Abs(y.n))

FSub(x, y) ==
    IF x.k = "nan" \/ y.k = "nan" THEN NaN
    ELSE IF x.k = "inf" THEN (IF y.k = "inf" /\ y.n = x.n THEN NaN ELSE x)
    ELSE IF y.k = "inf" THEN Inf(-y.n)
    ELSE Fin(x.n * y.d - y.n * x.d, x.d * y.d)

\* x >= y on Float64 (every comparison with NaN is false)
FGe(x, y) ==
    IF x.k = "nan" \/ y.k = "nan" THEN FALSE
    ELSE IF x.k = "inf" THEN (x.n = 1 \/ (y.k = "inf" /\ y.n = -1))
    ELSE IF y.k = "inf" THEN y.n = -1
    ELSE x.n * y.d >= y.n * x.d

\* column arithmetic: a null operand gives null
DivCells(a, b) == IF IsNull(a) \/ IsNull(b) THEN Null ELSE Some(FDiv(Val(a), Val(b)))

\* an integer column cast to Float64 for true division
IntCell(c) == IF IsNull(c) THEN Null ELSE Some(Fin(Val(c), 1))

---------------------------------------------------------------------------
(* Data frame primitives of polars used by the two apps *)

Frame(columns, rows) == [columns |-> columns, rows |-> rows]

\* df.filter(mask): the rows whose mask entry is true
Filter(f, mask) ==
    Frame(f.columns,
          LET keep == SelectSeq([i \in 1..Len(f.rows) |-> i], LAMBDA i : mask[i])
          IN  [n \in 1..Len(keep) |-> f.rows[keep[n]]])

\* df.select(cols)
Select(f, cols) ==
    Frame(cols, [i \in 1..Len(f.rows) |-> [c \in Range(cols) |-> f.rows[i][c]]])

\* the values of one column, in row order
Column(f, c) == [i \in 1..Len(f.rows) |-> f.rows[i][c]]

\* Series.unique().len(): the number of distinct values (null counts as one)
NUnique(f, c) == Cardinality(Range(Column(f, c)))

RECURSIVE Flatten(_)
Flatten(ss) == IF ss = <<>> THEN <<>> ELSE Head(ss) \o Flatten(Tail(ss))

\* str.split(";"): the pieces between the delimiters, empty pieces included
RECURSIVE StrSplit(_)
StrSplit(s) ==
    IF \A i \in 1..Len(s) : s[i] # ";" THEN <<s>>
    ELSE LET i == CHOOSE i \in 1..Len(s) :
                      s[i] = ";" /\ \A j \in 1..(i - 1) : s[j] # ";"
         IN  <<SubSeq(s, 1, i - 1)>> \o StrSplit(SubSeq(s, i + 1, Len(s)))

\* with_columns(col.str.split(";")).explode(col): one row per list element
Explode(f, column) ==
    Frame(f.columns,
          Flatten([i \in 1..Len(f.rows) |->
              LET r == f.rows[i]
                  parts == StrSplit(Val(r[column]))
              IN  [j \in 1..Len(parts) |->
                      [c \in DOMAIN r |-> IF c = column THEN Some(parts[j]) ELSE r[c]]]]))

\* the name a column of the right frame gets in a join's output
Suffixed(left, c) == IF c \in Range(left.columns) THEN c \o "_right" ELSE c

\* join keys match when every key pair is equal and non-null
KeysMatch(l, r, left_on, right_on) ==
    \A i \in 1..Len(left_on) :
        ~IsNull(l[left_on[i]]) /\ l[left_on[i]] = r[right_on[i]]

\* left.join(right, left_on, right_on, how): "full", "left" or "inner".  A full
\* join keeps every column of the right frame; the others keep its non-key
\* columns only.  A kept column is suffixed on a name clash.
Join(left, right, left_on, right_on, how) ==
    LET kept     == IF how = "full" THEN right.columns
                    ELSE SelectSeq(right.columns, LAMBDA c : c \notin Range(right_on))
        rnames   == [i \in 1..Len(kept) |-> Suffixed(left, kept[i])]
        RightPart(r) ==
            [c \in Range(rnames) |-> r[kept[CHOOSE i \in 1..Len(rnames) : rnames[i] = c]]]
        NullRight == [c \in Range(rnames) |-> Null]
        NullLeft  == [c \in Range(left.columns) |-> Null]
        Matches(l) ==
            SelectSeq(right.rows, LAMBDA r : KeysMatch(l, r, left_on, right_on))
        LeftRows(l) ==
            IF Matches(l) = <<>>
            THEN (IF how = "inner" THEN <<>> ELSE <<l @@ NullRight>>)
            ELSE [j \in 1..Len(Matches(l)) |-> l @@ RightPart(Matches(l)[j])]
        Unmatched ==
            SelectSeq(right.rows, LAMBDA r :
                \A i \in 1..Len(left.rows) :
                    ~KeysMatch(left.rows[i], r, left_on, right_on))
    IN  Frame(left.columns \o rnames,
              Flatten([i \in 1..Len(left.rows) |-> LeftRows(left.rows[i])])
              \o (IF how = "full"
                  THEN [j \in 1..Len(Unmatched) |-> NullLeft @@ RightPart(Unmatched[j])]
                  ELSE <<>>))

\* group_by(keys).len(): one row per distinct key, with its row count
GroupByLen(f, keys) ==
    LET Key(r)  == [c \in Range(keys) |-> r[c]]
        first   == SelectSeq([i \in 1..Len(f.rows) |-> i], LAMBDA i :
                       \A j \in 1..(i - 1) : Key(f.rows[j]) # Key(f.rows[i]))
        Count(k) == Cardinality({i \in 1..Len(f.rows) : Key(f.rows[i]) = k})
    IN  Frame(keys \o <<"len">>,
              [n \in 1..Len(first) |->
                  LET k == Key(f.rows[first[n]])
                  IN  k @@ ("len" :> Some(Count(k)))])

\* with_columns(expr.alias(name)): add or replace one column, given its values
WithColumn(f, name, values) ==
    Frame(IF name \in Range(f.columns) THEN f.columns ELSE f.columns \o <<name>>,
          [i \in 1..Len(f.rows) |->
              [c \in DOMAIN f.rows[i] \cup {name} |->
                  IF c = name THEN values[i] ELSE f.rows[i][c]]])

\* df.drop(name)
Drop(f, name) ==
    Select(f, SelectSeq(f.columns, LAMBDA c : c # name))

\* df.rename({old: new})
Rename(f, old, new) ==
    Frame([i \in 1..Len(f.columns) |-> IF f.columns[i] = old THEN new ELSE f.columns[i]],
          [i \in 1..Len(f.rows) |->
              [c \in (DOMAIN f.rows[i] \ {old}) \cup {new} |->
                  IF c = new THEN f.rows[i][old] ELSE f.rows[i][c]]])

\* df.sort(column, descending = True) on a numeric column without nulls,
\* given the column's values as floats: row i comes after every row with a
\* greater value and after the earlier rows with an equal value
SortDesc(f, keys) ==
    LET n == Len(f.rows)
        Greater(i, j) == FGe(keys[i], keys[j]) /\ ~FGe(keys[j], keys[i])
        Rank(i) == 1 + Cardinality({j \in 1..n :
                       Greater(j, i) \/ (~Greater(i, j) /\ j < i)})
    IN  Frame(f.columns, [p \in 1..n |-> f.rows[CHOOSE i \in 1..n : Rank(i) = p]])

\* a pivot that writes 0 where the frame has no row for an (index, on) pair
PivotFillZero(f, on, values, index) ==
    LET n        == Len(f.rows)
        Key(r)   == [c \in Range(index) |-> r[c]]
        firstKey == SelectSeq([i \in 1..n |-> i], LAMBDA i :
                        \A j \in 1..(i - 1) : Key(f.rows[j]) # Key(f.rows[i]))
        firstOn  == SelectSeq([i \in 1..n |-> i], LAMBDA i :
                        \A j \in 1..(i - 1) : f.rows[j][on] # f.rows[i][on])
        onValues == [m \in 1..Len(firstOn) |-> f.rows[firstOn[m]][on]]
        CellOf(k, o) ==
            IF \E i \in 1..n : Key(f.rows[i]) = k /\ f.rows[i][on] = o
            THEN f.rows[CHOOSE i \in 1..n : Key(f.rows[i]) = k /\ f.rows[i][on] = o][values]
            ELSE Some(0)
    IN  [index   |-> index,
         columns |-> onValues,
         rows    |-> [m \in 1..Len(firstKey) |->
                        LET k == Key(f.rows[firstKey[m]])
                        IN  [key    |-> k,
                             values |-> [o \in Range(onValues) |-> CellOf(k, o)]]]]

\* df.pivot(on, values) with the remaining columns (index) as the row key: one
\* row per distinct index value, one column per distinct value of `on`, a cell
\* null where the frame has no row for that (index, on) pair
Pivot(f, on, values, index) ==
    LET n        == Len(f.rows)
        Key(r)   == [c \in Range(index) |-> r[c]]
        firstKey == SelectSeq([i \in 1..n |-> i], LAMBDA i :
                        \A j \in 1..(i - 1) : Key(f.rows[j]) # Key(f.rows[i]))
        firstOn  == SelectSeq([i \in 1..n |-> i], LAMBDA i :
                        \A j \in 1..(i - 1) : f.rows[j][on] # f.rows[i][on])
        onValues == [m \in 1..Len(firstOn) |-> f.rows[firstOn[m]][on]]
        CellOf(k, o) ==
            IF \E i \in 1..n : Key(f.rows[i]) = k /\ f.rows[i][on] = o
            THEN f.rows[CHOOSE i \in 1..n : Key(f.rows[i]) = k /\ f.rows[i][on] = o][values]
            ELSE Null
    IN  [index   |-> index,
         columns |-> onValues,
         rows    |-> [m \in 1..Len(firstKey) |->
                        LET k == Key(f.rows[firstKey[m]])
                        IN  [key    |-> k,
                             values |-> [o \in Range(onValues) |-> CellOf(k, o)]]]]

---------------------------------------------------------------------------
(* stack_overflow_dev_survey_app.py *)

\* the sentinel string "NA"
NA == <<"N", "A">>

find_have_want_columns(tech_category) ==
    <<tech_category \o "HaveWorkedWith", tech_category \o "WantToWorkWith">>

\* variant of explode_column: only the null fields are filtered out
explode_column_keeping_NA(d, column, groups) ==
    Select(Explode(Filter(d, [i \in 1..Len(d.rows) |-> ~IsNull(d.rows[i][column])]), column),
           <<"ResponseId", column>> \o groups)

explode_column(d, column, groups) ==
    Select(Explode(Filter(d, [i \in 1..Len(d.rows) |->
                       ~IsNull(d.rows[i][column]) /\ d.rows[i][column] # Some(NA)]),
                   column),
           <<"ResponseId", column>> \o groups)

\* the loop of lines 89-90: coalesce col with col_right, then drop col_right
RECURSIVE CoalesceRight(_, _)
CoalesceRight(f, cols) ==
    IF cols = <<>> THEN f
    ELSE LET col == Head(cols)
             merged == WithColumn(f, col, [i \in 1..Len(f.rows) |->
                           Coalesce(f.rows[i][col], f.rows[i][col \o "_right"])])
         IN  CoalesceRight(Drop(merged, col \o "_right"), Tail(cols))

\* line 89: the columns col for which the join produced a col_right
SuffixedBases(f) ==
    SelectSeq(f.columns, LAMBDA c : (c \o "_right") \in Range(f.columns))

\* variant of CoalesceJoined: the col_right columns are dropped, not coalesced
RECURSIVE DropRight(_, _)
DropRight(f, cols) ==
    IF cols = <<>> THEN f ELSE DropRight(Drop(f, Head(cols) \o "_right"), Tail(cols))

CoalesceJoinedDropOnly(joined) == DropRight(joined, SuffixedBases(joined))

\* lines 89-91: the coalescing loop over the joined frame
CoalesceJoined(joined) == CoalesceRight(joined, SuffixedBases(joined))

\* variant of JoinExploded: the token columns are left out of the join keys
JoinExplodedOnId(h, w, have_column, want_column, groups) ==
    CoalesceJoined(
        Join(h, w, <<"ResponseId">> \o groups, <<"ResponseId">> \o groups, "full"))

\* lines 87-91: the full join of the exploded frames, then the coalescing loop
JoinExploded(h, w, have_column, want_column, groups) ==
    CoalesceJoined(
        Join(h, w, <<"ResponseId", have_column>> \o groups,
                   <<"ResponseId", want_column>> \o groups, "full"))

create_have_want_df(d, have_column, want_column, groups) ==
    JoinExploded(explode_column(d, have_column, groups),
                 explode_column(d, want_column, groups),
                 have_column, want_column, groups)

\* df.sort("len", descending = True)
SortLenDesc(f) ==
    SortDesc(f, [i \in 1..Len(f.rows) |-> Fin(Val(f.rows[i]["len"]), 1)])

\* df.sort("prop", descending = True)
SortPropDesc(f) ==
    SortDesc(f, [i \in 1..Len(f.rows) |-> Val(f.rows[i]["prop"])])

\* df.filter(~pl.col(column).is_null())
NotNull(f, column) ==
    Filter(f, [i \in 1..Len(f.rows) |-> ~IsNull(f.rows[i][column])])

create_have_want_count_df(tech_category, column, hw, groups, clean) ==
    IF clean
    THEN SortLenDesc(Rename(GroupByLen(NotNull(hw, column), <<column>> \o groups),
                            column, tech_category))
    ELSE GroupByLen(NotNull(hw, column), <<column>> \o groups)

\* variant of Respondents: the joined rows are counted, not the distinct ids
RespondentsAsRows(hw) == Len(hw.rows)

\* the denominator of line 102: have_want_df["ResponseId"].unique().len()
Respondents(hw) == NUnique(hw, "ResponseId")

\* line 102: prop = len / total
WithProp(counted, total) ==
    WithColumn(counted, "prop", [i \in 1..Len(counted.rows) |->
        DivCells(IntCell(counted.rows[i]["len"]), IntCell(Some(total)))])

\* lines 103-104: keep prop >= exclusion_prop when a threshold is given
AtLeast(f, exclusion_prop) ==
    IF IsNull(exclusion_prop) THEN f
    ELSE Filter(f, [i \in 1..Len(f.rows) |->
             FGe(Val(f.rows[i]["prop"]), Val(exclusion_prop))])

create_have_want_prop_df(tech_category, column, hw, groups, clean, exclusion_prop) ==
    IF clean
    THEN SortPropDesc(Drop(Rename(
             AtLeast(WithProp(create_have_want_count_df(tech_category, column, hw, groups, FALSE),
                              Respondents(hw)),
                     exclusion_prop),
             column, tech_category), "len"))
    ELSE AtLeast(WithProp(create_have_want_count_df(tech_category, column, hw, groups, FALSE),
                          Respondents(hw)),
                 exclusion_prop)

join_have_want_count_dfs(left, right, left_on, right_on) ==
    Join(left, right, left_on, right_on, "full")

clean_prop_df(tech_category, have_column, prop_df, groups) ==
    SortPropDesc(Rename(Select(NotNull(prop_df, "prop"), <<have_column, "prop">> \o groups),
                        have_column, tech_category))

\* line 124: prop = len_right / len
WithRatio(joined) ==
    WithColumn(joined, "prop", [i \in 1..Len(joined.rows) |->
        DivCells(IntCell(joined.rows[i]["len_right"]), IntCell(joined.rows[i]["len"]))])

\* lines 120-125, on the frame filtered at line 118
HaveWhoWant(tech_category, have_column, want_column, filtered, groups) ==
    clean_prop_df(tech_category, have_column,
        WithRatio(join_have_want_count_dfs(
            create_have_want_count_df(tech_category, have_column, filtered, groups, FALSE),
            create_have_want_count_df(tech_category, want_column, filtered, groups, FALSE),
            <<have_column>> \o groups, <<want_column>> \o groups)),
        groups)

create_prop_have_who_want_df(tech_category, have_column, want_column, hw, groups) ==
    HaveWhoWant(tech_category, have_column, want_column, NotNull(hw, have_column), groups)

\* 1 - x on a float column
OneMinus(c) == IF IsNull(c) THEN Null ELSE Some(FSub(Fin(1, 1), Val(c)))

\* line 136: prop = 1 - len_right / len
WithComplement(joined) ==
    WithColumn(joined, "prop", [i \in 1..Len(joined.rows) |->
        OneMinus(DivCells(IntCell(joined.rows[i]["len_right"]),
                          IntCell(joined.rows[i]["len"])))])

\* lines 132-137, on the frame filtered at line 130
WantWhoNotHave(tech_category, have_column, want_column, filtered, groups) ==
    clean_prop_df(tech_category, have_column,
        WithComplement(join_have_want_count_dfs(
            create_have_want_count_df(tech_category, want_column, filtered, groups, FALSE),
            create_have_want_count_df(tech_category, have_column, filtered, groups, FALSE),
            <<want_column>> \o groups, <<have_column>> \o groups)),
        groups)

create_prop_want_who_not_have_df(tech_category, have_column, want_column, hw, groups) ==
    WantWhoNotHave(tech_category, have_column, want_column, NotNull(hw, want_column), groups)

\* Python's `phrase in metric` on strings, with a metric held as its words
Contains(phrase, metric) ==
    \E i \in 0..(Len(metric) - Len(phrase)) :
        \A j \in 1..Len(phrase) : metric[i + j] = phrase[j]

\* variant of ExclusionColumn: the count metrics always take the have column
ExclusionColumnCountsByHave(metric, have_column, want_column) ==
    IF Contains(<<"Number">>, metric) THEN have_column
    ELSE IF Contains(<<"Have", "Who", "Want">>, metric) THEN have_column
    ELSE IF Contains(<<"Want", "Who", "Do", "Not", "Have">>, metric) THEN want_column
    ELSE IF Contains(<<"Have">>, metric) THEN have_column
    ELSE IF Contains(<<"Want">>, metric) THEN want_column
    ELSE ""

\* the column create_plot_data takes the exclusion frame from (`column`,
\* lines 144, 150, 153, 156, 159); "" when no branch binds it
ExclusionColumn(metric, have_column, want_column) ==
    IF Contains(<<"Number">>, metric)
    THEN (IF Contains(<<"Have">>, metric) THEN have_column ELSE want_column)
    ELSE IF Contains(<<"Have", "Who", "Want">>, metric) THEN have_column
    ELSE IF Contains(<<"Want", "Who", "Do", "Not", "Have">>, metric) THEN want_column
    ELSE IF Contains(<<"Have">>, metric) THEN have_column
    ELSE IF Contains(<<"Want">>, metric) THEN want_column
    ELSE ""

\* plot_data before the filter of line 162 (lines 146, 151, 154, 157, 160)
MetricFrame(tech_category, metric, have_column, want_column, hw, groups) ==
    IF Contains(<<"Number">>, metric)
    THEN create_have_want_count_df(tech_category,
             IF Contains(<<"Have">>, metric) THEN have_column ELSE want_column,
             hw, groups, TRUE)
    ELSE IF Contains(<<"Have", "Who", "Want">>, metric)
    THEN create_prop_have_who_want_df(tech_category, have_column, want_column, hw, groups)
    ELSE IF Contains(<<"Want", "Who", "Do", "Not", "Have">>, metric)
    THEN create_prop_want_who_not_have_df(tech_category, have_column, want_column, hw, groups)
    ELSE IF Contains(<<"Have">>, metric)
    THEN create_have_want_prop_df(tech_category, have_column, hw, groups, TRUE, Null)
    ELSE create_have_want_prop_df(tech_category, want_column, hw, groups, TRUE, Null)

\* line 162: keep the rows whose token is listed in the exclusion frame
ExclusionFilter(tech_category, f, excl) ==
    Filter(f, [i \in 1..Len(f.rows) |->
        f.rows[i][tech_category] \in Range(Column(excl, tech_category))])

\* lines 162 on: the exclusion filter, with the frames computed on the way
Filtered(tech_category, metric, h, w, hw, excl, unfiltered) ==
    [have_df      |-> h,
     want_df      |-> w,
     have_want_df |-> hw,
     exclusion_df |-> excl,
     metric_df    |-> unfiltered,
     plot_data    |-> ExclusionFilter(tech_category, unfiltered, excl),
     y            |-> IF Contains(<<"Number">>, metric) THEN "len" ELSE "prop"]

\* lines 142-161, on the joined frame of line 141
PlotDataOf(tech_category, metric, groups, exclusion_prop, have_column, want_column, h, w, hw) ==
    Filtered(tech_category, metric, h, w, hw,
        create_have_want_prop_df(tech_category,
            ExclusionColumn(metric, have_column, want_column), hw, <<>>, TRUE, exclusion_prop),
        MetricFrame(tech_category, metric, have_column, want_column, hw, groups))

\* lines 140-141
PlotDataOn(d, tech_category, metric, groups, exclusion_prop, have_column, want_column) ==
    PlotDataOf(tech_category, metric, groups, exclusion_prop, have_column, want_column,
        explode_column(d, have_column, groups),
        explode_column(d, want_column, groups),
        create_have_want_df(d, have_column, want_column, groups))

\* create_plot_data (lines 139-165) through line 162, with its intermediate frames
create_plot_data(d, tech_category, metric, groups, exclusion_prop) ==
    PlotDataOn(d, tech_category, metric, groups, exclusion_prop,
        find_have_want_columns(tech_category)[1],
        find_have_want_columns(tech_category)[2])

-----
(* The survey data and the requests the callbacks receive *)

\* the number of respondents of an enumerated survey data set
MaxRecords == 2

C == <<"C">>

R == <<"R">>

Go == <<"G", "o">>

Python == <<"P", "y", "t", "h", "o", "n">>

\* two answers of a multi-select question as the survey file joins them
Semi(a, b) == a \o <<";">> \o b

SurveyColumns == <<"ResponseId", "MainBranch", "LanguageHaveWorkedWith", "LanguageWantToWorkWith">>

Respondent(id, branch, have, want) ==
    [c \in Range(SurveyColumns) |->
        CASE c = "ResponseId" -> Some(id)
          [] c = "MainBranch" -> Some(branch)
          [] c = "LanguageHaveWorkedWith" -> have
          [] OTHER -> want]

HaveAnswers == {Null, Some(Semi(C, R)), Some(Semi(C, C))}

WantAnswers == {Some(NA), Some(C)}

Branches == {"Developer", "Other"}

Answers == HaveAnswers \X WantAnswers \X Branches

SurveyOf(answers) ==
    Frame(SurveyColumns, [i \in 1..Len(answers) |->
        Respondent(i, answers[i][3], answers[i][1], answers[i][2])])

\* Scenario A of the specification: four respondents
ScenarioA ==
    SurveyOf(<< <<Some(Semi(Python, Go)), Some(Go), "Developer">>,
                <<Some(Go), Some(Python), "Developer">>,
                <<Null, Some(Go), "Other">>,
                <<Some(NA), Some(Python), "Other">> >>)

\* Scenario B: R1 and R2 have Go, only R1 also wants it
ScenarioB ==
    SurveyOf(<< <<Some(Go), Some(Go), "Developer">>,
                <<Some(Go), Some(Python), "Other">> >>)

\* a respondent listing a token twice around another, and unanswered fields
ScenarioRepeat ==
    SurveyOf(<< <<Some(Semi(Semi(C, R), C)), Some(Semi(C, C)), "Developer">>,
                <<Some(NA), Null, "Other">> >>)

\* five respondents, one token had by one of them only
ScenarioFew ==
    SurveyOf(<< <<Some(Semi(C, R)), Some(R), "Developer">>,
                <<Some(C), Some(R), "Developer">>,
                <<Some(C), Some(C), "Other">>,
                <<Some(C), Some(NA), "Other">>,
                <<Null, Some(Go), "Other">> >>)

\* answers with adjacent, trailing and leading delimiters
ScenarioDelimiters ==
    SurveyOf(<< <<Some(Semi(Semi(C, <<>>), R)), Some(Semi(C, <<>>)), "Developer">>,
                <<Some(Semi(<<>>, C)), Some(C), "Other">> >>)

\* five respondents in two groups: C is had in one group only, R in both,
\* Go by a single respondent
ScenarioPivot ==
    SurveyOf(<< <<Some(Semi(C, R)), Some(C), "Developer">>,
                <<Some(C), Some(R), "Developer">>,
                <<Some(R), Some(R), "Other">>,
                <<Some(Semi(R, Go)), Some(C), "Other">>,
                <<Null, Some(Go), "Other">> >>)

Surveys ==
    {SurveyOf(a) : a \in UNION {[1..n -> Answers] : n \in 0..MaxRecords}}
    \cup {ScenarioA, ScenarioB, ScenarioRepeat, ScenarioFew, ScenarioDelimiters,
          ScenarioPivot}

\* line 182: the categories found in the data frame's columns
tech_categories == {"Language"}

NumberHave == <<"Number", "Have", "Worked", "With">>

ProportionHave == <<"Proportion", "Have", "Worked", "With">>

NumberWant == <<"Number", "Want", "To", "Work", "With">>

ProportionWant == <<"Proportion", "Want", "To", "Work", "With">>

HaveWhoWantMetric == <<"Proportion", "Have", "Who", "Want">>

WantWhoNotHaveMetric == <<"Proportion", "Want", "Who", "Do", "Not", "Have">>

\* line 183, each metric held as its words
metrics ==
    {NumberHave, ProportionHave, NumberWant, ProportionWant,
     HaveWhoWantMetric, WantWhoNotHaveMetric}

\* line 184, restricted to the grouping column the modelled data carries
group_names == {"MainBranch"}

\* what the exclusion NumberInput can hold: nothing, the empty string, a number
ExclusionInputs ==
    {[kind |-> "none", v |-> Null], [kind |-> "empty", v |-> Null],
     [kind |-> "number", v |-> Some(Fin(1, 4))],
     [kind |-> "number", v |-> Some(Fin(1, 2))]}

\* lines 246 and 262: exclusion_prop = None if exclusion_prop == "" else exclusion_prop
NormalizeExclusion(input) == IF input.kind = "empty" THEN Null ELSE input.v

EmptyFrame == Frame(<<>>, <<>>)

NoPivot == [index |-> <<>>, columns |-> <<>>, rows |-> <<>>]

NoRequest ==
    [tech_category |-> Null, metric |-> Null, groups |-> <<>>, exclusion_prop |-> Null,
     called |-> FALSE]

\* a dropdown that may still be unset (value None)
Optional(values) == {Null} \cup {Some(v) : v \in values}

---------------------------------------------------------------------------
(* rural_investments_app.py *)

\* IEEE-754 addition on Float64
FAdd(x, y) ==
    IF x.k = "nan" \/ y.k = "nan" THEN NaN
    ELSE IF x.k = "inf" THEN (IF y.k = "inf" /\ y.n # x.n THEN NaN ELSE x)
    ELSE IF y.k = "inf" THEN y
    ELSE Fin(x.n * y.d + y.n * x.d, x.d * y.d)

\* Expr.sum() on a Float64 column: nulls are skipped, the empty sum is 0.0
RECURSIVE SumFloat(_)
SumFloat(cells) ==
    IF cells = <<>> THEN Fin(0, 1)
    ELSE IF IsNull(Head(cells)) THEN SumFloat(Tail(cells))
    ELSE FAdd(Val(Head(cells)), SumFloat(Tail(cells)))

\* Expr.sum() on an Int64 column: nulls are skipped, the empty sum is 0
RECURSIVE SumInt(_)
SumInt(cells) ==
    IF cells = <<>> THEN 0
    ELSE IF IsNull(Head(cells)) THEN SumInt(Tail(cells))
    ELSE Val(Head(cells)) + SumInt(Tail(cells))

\* the values of column c in the rows of d that share row r's group_by key
GroupColumn(d, group_by, r, c) ==
    [n \in 1..Len(SelectSeq(d.rows, LAMBDA x : \A g \in Range(group_by) : x[g] = r[g])) |->
        SelectSeq(d.rows, LAMBDA x : \A g \in Range(group_by) : x[g] = r[g])[n][c]]

\* the three aggregates of one group (lines 44-46), given its two sums
Aggregates(dollars, number) ==
    [c \in {"Sum Investment Dollars", "Number of Investments", "Average Investment Dollars"} |->
        IF c = "Sum Investment Dollars" THEN Some(dollars)
        ELSE IF c = "Number of Investments" THEN Some(number)
        ELSE Some(FDiv(dollars, Fin(number, 1)))]

\* the aggregated row of the group of row r
GroupRow(d, group_by, r) ==
    [g \in Range(group_by) |-> r[g]]
    @@ Aggregates(SumFloat(GroupColumn(d, group_by, r, "Investment Dollars")),
                  SumInt(GroupColumn(d, group_by, r, "Number of Investments")))

\* the indices of the rows that open a new group, in row order
FirstOfGroups(d, group_by) ==
    SelectSeq([i \in 1..Len(d.rows) |-> i], LAMBDA i :
        \A j \in 1..(i - 1) : \E g \in Range(group_by) : d.rows[j][g] # d.rows[i][g])

GroupedFrom(d, group_by, first) ==
    Frame(group_by \o <<"Sum Investment Dollars", "Number of Investments",
                        "Average Investment Dollars">>,
          [n \in 1..Len(first) |-> GroupRow(d, group_by, d.rows[first[n]])])

\* df.group_by(group_by).agg([...]): one row per distinct key.  polars does
\* not fix the order of the groups; they are taken in order of first appearance
group_and_calc_data(d, group_by) == GroupedFrom(d, group_by, FirstOfGroups(d, group_by))

\* fill_null left out: a null stays null
FillNothing(c, v) == c

\* Expr.fill_null(v): replaces null, and only null (NaN is a value)
FillNull(c, v) == IF IsNull(c) THEN Some(v) ELSE c

\* line 52: df.filter(pl.col("State Code") == state), or df when state is None
StateFilter(d, state) ==
    IF IsNull(state) THEN d
    ELSE Filter(d, [i \in 1..Len(d.rows) |-> d.rows[i]["State Code"] = state])

\* line 58: data.filter(pl.col("Svi Status") == "Socially Vulnerable")
SociallyVulnerable(data) ==
    Filter(data, [i \in 1..Len(data.rows) |->
                     data.rows[i]["Svi Status"] = Some("Socially Vulnerable")])

\* lines 61-63: the two proportion columns, both computed from the joined frame
WithProps(joined) ==
    WithColumn(
        WithColumn(joined, "Prop Investment Dollars SVI",
            [i \in 1..Len(joined.rows) |->
                FillNull(DivCells(joined.rows[i]["Sum Investment Dollars_right"],
                                  joined.rows[i]["Sum Investment Dollars"]), Fin(0, 1))]),
        "Prop Number of Investments SVI",
        [i \in 1..Len(joined.rows) |->
            FillNull(DivCells(IntCell(joined.rows[i]["Number of Investments_right"]),
                              IntCell(joined.rows[i]["Number of Investments"])), Fin(0, 1))])

\* line 64
DropRightAggregates(f) ==
    Drop(Drop(Drop(f, "Sum Investment Dollars_right"), "Number of Investments_right"),
         "Average Investment Dollars_right")

\* lines 57-64 on the (state-filtered) data
GroupedRatios(data, group_by) ==
    DropRightAggregates(WithProps(
        Join(group_and_calc_data(data, group_by),
             group_and_calc_data(SociallyVulnerable(data), group_by),
             group_by, group_by, "left")))

\* create_plot_data(df, group_by, state) of the investments app
rural_create_plot_data(d, group_by, state) == GroupedRatios(StateFilter(d, state), group_by)

\* the order df.sort puts Float64 values in: NaN after every number
FLe(x, y) == y.k = "nan" \/ (x.k # "nan" /\ FGe(y, x))

\* the sort key of a metric cell ("Number of Investments" is an integer column)
MetricKey(metric, c) == IF metric = "Number of Investments" THEN Fin(Val(c), 1) ELSE Val(c)

\* df.sort(metric, descending = False), stable
SortAsc(f, metric) ==
    LET n == Len(f.rows)
        Less(i, j) == /\ FLe(MetricKey(metric, f.rows[i][metric]), MetricKey(metric, f.rows[j][metric]))
                      /\ ~FLe(MetricKey(metric, f.rows[j][metric]), MetricKey(metric, f.rows[i][metric]))
        Rank(i) == 1 + Cardinality({j \in 1..n : Less(j, i) \/ (~Less(i, j) /\ j < i)})
    IN  Frame(f.columns, [p \in 1..n |-> f.rows[CHOOSE i \in 1..n : Rank(i) = p]])

\* create_map: what the choropleth is drawn from
create_map(data, metric, state) ==
    [kind      |-> "choropleth",
     data      |-> data,
     color     |-> metric,
     locations |-> IF IsNull(state) THEN "State Code" ELSE "County FIPS"]

\* create_bar_chart: the bars are the rows sorted by the metric
create_bar_chart(data, metric, variable, state) ==
    [kind |-> "bar", data |-> SortAsc(data, metric), x |-> metric, y |-> variable]

no_update == [kind |-> "no_update"]

NoFigure == [kind |-> "none"]

NoFigures ==
    [state_map |-> NoFigure, overall_bar_chart |-> NoFigure,
     county_map |-> NoFigure, state_bar_chart |-> NoFigure]

NoInputs == [callback |-> "", triggered_id |-> "", metric |-> "", variable |-> "", click_data |-> Null]

rural_metrics ==
    {"Sum Investment Dollars", "Number of Investments", "Average Investment Dollars",
     "Prop Investment Dollars SVI", "Prop Number of Investments SVI"}

variables == {"Program Area", "Svi Status", "Investment Type"}

MaxInvestments == 2

RuralColumns ==
    <<"State Name", "State Code", "County", "County FIPS", "Program Area", "Svi Status",
      "Investment Type", "Investment Dollars", "Number of Investments">>

Investment(place, area, svi, type, dollars, number) ==
    [c \in Range(RuralColumns) |->
        IF c = "State Name" THEN Some(place[1])
        ELSE IF c = "State Code" THEN Some(place[2])
        ELSE IF c = "County" THEN Some(place[3])
        ELSE IF c = "County FIPS" THEN Some(place[4])
        ELSE IF c = "Program Area" THEN Some(area)
        ELSE IF c = "Svi Status" THEN Some(svi)
        ELSE IF c = "Investment Type" THEN Some(type)
        ELSE IF c = "Investment Dollars" THEN Some(Fin(dollars, 1))
        ELSE Some(number)]

Ohio == <<"Ohio", "OH", "Adams", "39001">>

Utah == <<"Utah", "UT", "Beaver", "49001">>

\* the rows a data set is drawn from, in file order
Catalogue ==
    <<Investment(Ohio, "Housing", "Socially Vulnerable", "Grants", 30, 1),
      Investment(Ohio, "Housing", "Socially Vulnerable", "Grants", 0, 0),
      Investment(Ohio, "Housing", "Not Socially Vulnerable", "Grants", 30, 1),
      Investment(Ohio, "Housing", "Not Socially Vulnerable", "Loans", 0, 0),
      Investment(Ohio, "Energy", "Socially Vulnerable", "Loans", 30, 1),
      Investment(Ohio, "Energy", "Socially Vulnerable", "Grants", 0, 0),
      Investment(Ohio, "Energy", "Not Socially Vulnerable", "Grants", 30, 1),
      Investment(Ohio, "Energy", "Not Socially Vulnerable", "Loans", 0, 0),
      Investment(Utah, "Housing", "Socially Vulnerable", "Grants", 30, 1),
      Investment(Utah, "Housing", "Socially Vulnerable", "Loans", 0, 0),
      Investment(Utah, "Housing", "Not Socially Vulnerable", "Loans", 30, 1),
      Investment(Utah, "Housing", "Not Socially Vulnerable", "Grants", 0, 0),
      Investment(Utah, "Energy", "Socially Vulnerable", "Grants", 30, 1),
      Investment(Utah, "Energy", "Socially Vulnerable", "Grants", 0, 0),
      Investment(Utah, "Energy", "Not Socially Vulnerable", "Loans", 30, 1),
      Investment(Utah, "Energy", "Not Socially Vulnerable", "Grants", 0, 0)>>

\* the rows of the catalogue with the given indices, in file order
RECURSIVE Picked(_, _)
Picked(chosen, i) ==
    IF i > Len(Catalogue) THEN <<>>
    ELSE (IF i \in chosen THEN <<Catalogue[i]>> ELSE <<>>) \o Picked(chosen, i + 1)

\* group X: sum 100, count 2, of which 30 and 1 socially vulnerable;
\* group Y: count 0
ScenarioC ==
    Frame(RuralColumns,
          <<Investment(Ohio, "Housing", "Not Socially Vulnerable", "Grants", 70, 1),
            Investment(Ohio, "Housing", "Socially Vulnerable", "Grants", 30, 1),
            Investment(Ohio, "Energy", "Not Socially Vulnerable", "Loans", 0, 0)>>)

Investments ==
    {Frame(RuralColumns, Picked(chosen, 1)) :
        chosen \in {x \in SUBSET (1..Len(Catalogue)) :
                       Cardinality(x) \in 1..MaxInvestments}}
    \cup {ScenarioC}

\* the states a click on the state map can name
StateCodes(d) == {d.rows[i]["State Code"] : i \in 1..Len(d.rows)}

---------------------------------------------------------------------------
(* The state machine of the investments app *)

RuralInit ==
    /\ inv_df \in Investments
    /\ pc = "idle"
    /\ inv_request = NoInputs
    /\ inv_out = NoFigures
    /\ df = EmptyFrame
    /\ request = NoRequest
    /\ have_df = EmptyFrame
    /\ want_df = EmptyFrame
    /\ have_want_df = EmptyFrame
    /\ exclusion_df = EmptyFrame
    /\ metric_df = EmptyFrame
    /\ plot_data = EmptyFrame
    /\ pivot_data = NoPivot

survey_vars ==
    <<df, request, have_df, want_df, have_want_df, exclusion_df, metric_df, plot_data,
      pivot_data>>

\* the callback update_overall_plots (lines 210-218)
update_overall_plots ==
    /\ pc = "idle"
    /\ \E variable \in variables :
       \E state_map_plot_data \in {rural_create_plot_data(inv_df, <<"State Name", "State Code">>, Null)},
          overall_bar_chart_data \in {rural_create_plot_data(inv_df, <<variable>>, Null)} :
       \E metric \in rural_metrics, triggered_id \in {"metric", "variable"} :
           /\ inv_request' = [callback |-> "update_overall_plots", triggered_id |-> triggered_id,
                              metric |-> metric, variable |-> variable, click_data |-> Null]
           /\ inv_out' = [inv_out EXCEPT
                  !.state_map = IF triggered_id = "variable" THEN no_update
                                ELSE create_map(state_map_plot_data, metric, Null),
                  !.overall_bar_chart =
                      create_bar_chart(overall_bar_chart_data, metric, variable, Null)]
    /\ pc' = "done"
    /\ UNCHANGED <<inv_df, survey_vars>>

\* the figures update_state_plots returns for a clicked state (lines 244-262)
StatePlots(state, metric, variable, triggered_id, county_map_plot_data, state_map_plot_data) ==
    inv_out' = [inv_out EXCEPT
        !.county_map = IF triggered_id = "variable" THEN no_update
                       ELSE create_map(county_map_plot_data, metric, state),
        !.state_bar_chart = create_bar_chart(state_map_plot_data, metric, variable, state)]

\* the callback update_state_plots (lines 242-263); without a click it raises
\* PreventUpdate and no output changes
update_state_plots ==
    /\ pc = "idle"
    /\ \E variable \in variables, click_data \in {Null} \cup StateCodes(inv_df) :
       \E county_map_plot_data \in
              {IF IsNull(click_data) THEN EmptyFrame
               ELSE rural_create_plot_data(inv_df,
                        <<"State Name", "State Code", "County", "County FIPS">>, click_data)},
          state_map_plot_data \in
              {IF IsNull(click_data) THEN EmptyFrame
               ELSE rural_create_plot_data(inv_df, <<variable>>, click_data)} :
       \E metric \in rural_metrics, triggered_id \in {"state_map", "metric", "variable"} :
           /\ inv_request' = [callback |-> "update_state_plots", triggered_id |-> triggered_id,
                              metric |-> metric, variable |-> variable,
                              click_data |-> click_data]
           /\ IF IsNull(click_data) THEN inv_out' = inv_out
              ELSE StatePlots(click_data, metric, variable, triggered_id,
                              county_map_plot_data, state_map_plot_data)
    /\ pc' = "done"
    /\ UNCHANGED <<inv_df, survey_vars>>

\* the callback has returned; the next one starts from fresh inputs
RuralReturn ==
    /\ pc = "done"
    /\ pc' = "idle"
    /\ inv_request' = NoInputs
    /\ inv_out' = NoFigures
    /\ UNCHANGED <<inv_df, survey_vars>>

RuralNext == update_overall_plots \/ update_state_plots \/ RuralReturn

SpecRural == RuralInit /\ [][RuralNext]_vars

---------------------------------------------------------------------------
(* The state machine of the survey app *)

Init ==
    /\ df \in Surveys
    /\ pc = "idle"
    /\ request = NoRequest
    /\ have_df = EmptyFrame
    /\ want_df = EmptyFrame
    /\ have_want_df = EmptyFrame
    /\ exclusion_df = EmptyFrame
    /\ metric_df = EmptyFrame
    /\ plot_data = EmptyFrame
    /\ pivot_data = NoPivot
    /\ inv_df = EmptyFrame
    /\ inv_request = NoInputs
    /\ inv_out = NoFigures

\* the state a create_plot_data call leaves behind
Computed(tech_category, metric, groups, exclusion_prop) ==
    \E out \in {create_plot_data(df, tech_category, metric, groups, exclusion_prop)} :
        /\ request' = [tech_category |-> Some(tech_category), metric |-> Some(metric),
                       groups |-> groups, exclusion_prop |-> exclusion_prop,
                       called |-> TRUE]
        /\ have_df' = out.have_df
        /\ want_df' = out.want_df
        /\ have_want_df' = out.have_want_df
        /\ exclusion_df' = out.exclusion_df
        /\ metric_df' = out.metric_df
        /\ plot_data' = out.plot_data
        /\ pivot_data' = IF Len(groups) > 0
                         THEN Pivot(out.plot_data, tech_category, out.y, groups)
                         ELSE NoPivot

\* a callback that returns an empty figure without calling create_plot_data
Skipped(tech_category, metric, groups, exclusion_prop) ==
    /\ request' = [tech_category |-> tech_category, metric |-> metric, groups |-> groups,
                   exclusion_prop |-> exclusion_prop, called |-> FALSE]
    /\ have_df' = EmptyFrame
    /\ want_df' = EmptyFrame
    /\ have_want_df' = EmptyFrame
    /\ exclusion_df' = EmptyFrame
    /\ metric_df' = EmptyFrame
    /\ plot_data' = EmptyFrame
    /\ pivot_data' = NoPivot

\* the callback update_bar_plot (lines 245-250)
update_bar_plot ==
    /\ pc = "idle"
    /\ \E tech_category \in Optional(tech_categories), metric \in Optional(metrics),
          input \in ExclusionInputs :
           IF ~IsNull(tech_category) /\ ~IsNull(metric)
           THEN Computed(Val(tech_category), Val(metric), <<>>, NormalizeExclusion(input))
           ELSE Skipped(tech_category, metric, <<>>, NormalizeExclusion(input))
    /\ pc' = "done"
    /\ UNCHANGED <<df, inv_df, inv_request, inv_out>>

\* the callback update_heat_map (lines 261-268)
update_heat_map ==
    /\ pc = "idle"
    /\ \E tech_category \in Optional(tech_categories), metric \in Optional(metrics),
          input \in ExclusionInputs, group \in Optional(group_names) :
           IF ~IsNull(tech_category) /\ ~IsNull(metric) /\ ~IsNull(group)
           THEN Computed(Val(tech_category), Val(metric), <<Val(group)>>,
                         NormalizeExclusion(input))
           ELSE Skipped(tech_category, metric, group, NormalizeExclusion(input))
    /\ pc' = "done"
    /\ UNCHANGED <<df, inv_df, inv_request, inv_out>>

\* the callback returns its figure; nothing computed is kept (no derived state)
Return ==
    /\ pc = "done"
    /\ pc' = "idle"
    /\ request' = NoRequest
    /\ have_df' = EmptyFrame
    /\ want_df' = EmptyFrame
    /\ have_want_df' = EmptyFrame
    /\ exclusion_df' = EmptyFrame
    /\ metric_df' = EmptyFrame
    /\ plot_data' = EmptyFrame
    /\ pivot_data' = NoPivot
    /\ UNCHANGED <<df, inv_df, inv_request, inv_out>>

Next == update_bar_plot \/ update_heat_map \/ Return

Spec == Init /\ [][Next]_vars

---------------------------------------------------------------------------
(* create_plot_data called with any category and any metric string *)

\* line 78 (reached from lines 141 and 85): polars raises ColumnNotFoundError
\* when the frame has no column of the name find_have_want_columns built
ColumnNotFound(d, tech_category) ==
    \E i \in 1..2 : find_have_want_columns(tech_category)[i] \notin Range(d.columns)

\* line 161: no branch of lines 142-160 bound `column` (UnboundLocalError)
ColumnUnbound(metric) == ExclusionColumn(metric, "have_column", "want_column") = ""

\* the call ends in an exception instead of a return
Raises(d, tech_category, metric) ==
    ColumnNotFound(d, tech_category) \/ ColumnUnbound(metric)

\* categories a caller may name: the data's, and one the data does not have
RequestedCategories == tech_categories \cup {"Database"}

\* metric strings a caller may pass: the six of line 183 and three others
RequestedMetrics ==
    metrics \cup {<<"Number", "Of", "Respondents">>, <<"Have", "Not", "Used">>,
                  <<"Median", "Salary">>}

\* the state an exception in create_plot_data leaves behind: nothing returned
Raised(tech_category, metric, groups, exclusion_prop) ==
    /\ request' = [tech_category |-> Some(tech_category), metric |-> Some(metric),
                   groups |-> groups, exclusion_prop |-> exclusion_prop, called |-> TRUE]
    /\ have_df' = EmptyFrame
    /\ want_df' = EmptyFrame
    /\ have_want_df' = EmptyFrame
    /\ exclusion_df' = EmptyFrame
    /\ metric_df' = EmptyFrame
    /\ plot_data' = EmptyFrame
    /\ pivot_data' = NoPivot

\* a call create_plot_data(tech_category, metric, groups, exclusion_prop)
\* (lines 139-165) that returns its result
call_returns ==
    /\ pc = "idle"
    /\ \E tech_category \in RequestedCategories, metric \in RequestedMetrics,
          groups \in {<<>>} \cup {<<g>> : g \in group_names}, input \in ExclusionInputs :
           /\ ~Raises(df, tech_category, metric)
           /\ Computed(tech_category, metric, groups, NormalizeExclusion(input))
    /\ pc' = "done"
    /\ UNCHANGED <<df, inv_df, inv_request, inv_out>>

\* the same call ending in an exception
call_raises ==
    /\ pc = "idle"
    /\ \E tech_category \in RequestedCategories, metric \in RequestedMetrics,
          groups \in {<<>>} \cup {<<g>> : g \in group_names}, input \in ExclusionInputs :
           /\ Raises(df, tech_category, metric)
           /\ Raised(tech_category, metric, groups, NormalizeExclusion(input))
    /\ pc' = "raised"
    /\ UNCHANGED <<df, inv_df, inv_request, inv_out>>

\* the caller has seen the result or the exception
call_ends ==
    /\ pc \in {"done", "raised"}
    /\ pc' = "idle"
    /\ request' = NoRequest
    /\ have_df' = EmptyFrame
    /\ want_df' = EmptyFrame
    /\ have_want_df' = EmptyFrame
    /\ exclusion_df' = EmptyFrame
    /\ metric_df' = EmptyFrame
    /\ plot_data' = EmptyFrame
    /\ pivot_data' = NoPivot
    /\ UNCHANGED <<df, inv_df, inv_request, inv_out>>

RequestNext == call_returns \/ call_raises \/ call_ends

SpecRequest == Init /\ [][RequestNext]_vars

---------------------------------------------------------------------------
(* Properties of the survey engine.  They are stated on the frames a finished  *)
(* create_plot_data call leaves behind (pc = "done").                          *)

Done == pc = "done" /\ request.called

TechCategory == Val(request.tech_category)

Metric == Val(request.metric)

HaveColumn == find_have_want_columns(TechCategory)[1]

WantColumn == find_have_want_columns(TechCategory)[2]

\* the have or want column a metric is about
OwnColumn(metric) ==
    IF metric \in {NumberHave, ProportionHave, HaveWhoWantMetric} THEN HaveColumn ELSE WantColumn

\* rows a and b carry the same values of the requested grouping columns
SameGroups(a, b) == \A g \in Range(request.groups) : a[g] = b[g]

\* the token cells of column c of frame f
TokensOf(f, c) == {f.rows[i][c] : i \in 1..Len(f.rows)}

\* the indices of the joined rows with token cell t in column c
JoinedWith(c, t) == {i \in 1..Len(have_want_df.rows) : have_want_df.rows[i][c] = t}

\* the distinct record ids of the whole have/want join
JoinedIds == {have_want_df.rows[i]["ResponseId"] : i \in 1..Len(have_want_df.rows)}

\* the unconditional, ungrouped proportion of token cell t in column c
UnconditionalProp(c, t) == Fin(Cardinality(JoinedWith(c, t)), Cardinality(JoinedIds))

\* a field that was answered: neither null nor "NA"
Answered(cell) == ~IsNull(cell) /\ cell # Some(NA)

\* C1 (as claimed): with a threshold supplied, the tokens kept in the output are
\* exactly the metric's result tokens whose unconditional have-proportion is at
\* least the threshold, whichever metric is requested.
C1_ExclusionByHaveProportion ==
    (Done /\ ~IsNull(request.exclusion_prop)) =>
        TokensOf(plot_data, TechCategory) =
            {t \in TokensOf(metric_df, TechCategory) :
                /\ JoinedWith(HaveColumn, t) # {}
                /\ FGe(UnconditionalProp(HaveColumn, t), Val(request.exclusion_prop))}

\* C2 (as claimed): for the same data, category, grouping and threshold the
\* Count-Have output and the Proportion-Want output carry the same tokens.
C2_CountHaveMatchesProportionWant ==
    (Done /\ Metric = NumberHave) =>
        TokensOf(plot_data, TechCategory) =
            TokensOf(create_plot_data(df, TechCategory, ProportionWant, request.groups,
                                      request.exclusion_prop).plot_data, TechCategory)

\* the proportion metric on the column the count metric of the request is about
ProportionTwin == IF Metric = NumberHave THEN ProportionHave ELSE ProportionWant

\* C2 (amended): for the same data, category, grouping and threshold the
\* Count-Have output carries the same tokens as the Proportion-Have output, and
\* the Count-Want output the same tokens as the Proportion-Want output.
C2_CountMatchesProportionOfSameColumn ==
    (Done /\ Metric \in {NumberHave, NumberWant}) =>
        TokensOf(plot_data, TechCategory) =
            TokensOf(create_plot_data(df, TechCategory, ProportionTwin, request.groups,
                                      request.exclusion_prop).plot_data, TechCategory)

\* C2 witness: a Count-Want output from which the threshold removed a token
C2_Witness ==
    /\ Done
    /\ Metric = NumberWant
    /\ ~IsNull(request.exclusion_prop)
    /\ TokensOf(plot_data, TechCategory) # {}
    /\ TokensOf(plot_data, TechCategory) # TokensOf(metric_df, TechCategory)

\* C3 (as claimed): every value of the four proportion metrics lies in [0, 1].
C3_ProportionsWithinUnitInterval ==
    (Done /\ Metric \notin {NumberHave, NumberWant}) =>
        \A i \in 1..Len(metric_df.rows) :
            /\ FGe(Val(metric_df.rows[i]["prop"]), Fin(0, 1))
            /\ FGe(Fin(1, 1), Val(metric_df.rows[i]["prop"]))

\* the (token, groups) keys of the joined rows with a non-null token in column c
KeyRows(c) == {i \in 1..Len(have_want_df.rows) : ~IsNull(have_want_df.rows[i][c])}

\* the joined rows with the token and group values of joined row i in column c
SameKey(c, i) ==
    {j \in KeyRows(c) :
        /\ have_want_df.rows[j][c] = have_want_df.rows[i][c]
        /\ SameGroups(have_want_df.rows[j], have_want_df.rows[i])}

\* those of them whose other token column o is non-null too
SameKeyBoth(c, o, i) == {j \in SameKey(c, i) : ~IsNull(have_want_df.rows[j][o])}

\* the metric's rows for the token and group values of joined row i in column c
MetricRows(c, i) ==
    {k \in 1..Len(metric_df.rows) :
        /\ metric_df.rows[k][TechCategory] = have_want_df.rows[i][c]
        /\ SameGroups(metric_df.rows[k], have_want_df.rows[i])}

\* C5 (as claimed): Have-Who-Want reports every token some joined row has, with
\* the value (rows with that have token and a want token) / (rows with that
\* have token), 0 when nobody who has it wants it.
C5_HaveWhoWantReportsEveryHave ==
    (Done /\ Metric = HaveWhoWantMetric) =>
        \A i \in KeyRows(HaveColumn) :
            \E k \in MetricRows(HaveColumn, i) :
                metric_df.rows[k]["prop"] =
                    Some(Fin(Cardinality(SameKeyBoth(HaveColumn, WantColumn, i)),
                             Cardinality(SameKey(HaveColumn, i))))

\* C6 (as claimed): Want-Who-Not-Have reports every token some joined row wants,
\* with the value 1 - (rows with that want token and a have token) / (rows with
\* that want token), 1 when nobody who wants it has it.
C6_WantWhoNotHaveReportsEveryWant ==
    (Done /\ Metric = WantWhoNotHaveMetric) =>
        \A i \in KeyRows(WantColumn) :
            \E k \in MetricRows(WantColumn, i) :
                metric_df.rows[k]["prop"] =
                    Some(FSub(Fin(1, 1),
                              Fin(Cardinality(SameKeyBoth(WantColumn, HaveColumn, i)),
                                  Cardinality(SameKey(WantColumn, i)))))

\* the respondents of the data frame who answered the have or the want question
AnsweredEither ==
    {i \in 1..Len(df.rows) :
        Answered(df.rows[i][HaveColumn]) \/ Answered(df.rows[i][WantColumn])}

\* the joined rows with the token and group values of metric row k
JoinedForMetricRow(c, k) ==
    {j \in 1..Len(have_want_df.rows) :
        /\ have_want_df.rows[j][c] = metric_df.rows[k][TechCategory]
        /\ SameGroups(have_want_df.rows[j], metric_df.rows[k])}

\* C7: a Proportion-Have (Proportion-Want) value is the number of joined rows
\* with that have (want) token and those group values, divided by the number of
\* respondents who answered either question; in Scenario A the denominator is 4
\* and Proportion-Have of Go is 1/2.
C7_UnconditionalProportion ==
    (Done /\ Metric \in {ProportionHave, ProportionWant}) =>
        /\ \A k \in 1..Len(metric_df.rows) :
               metric_df.rows[k]["prop"] =
                   Some(Fin(Cardinality(JoinedForMetricRow(OwnColumn(Metric), k)),
                            Cardinality(AnsweredEither)))
        /\ (df = ScenarioA /\ Metric = ProportionHave /\ request.groups = <<>>) =>
               /\ Cardinality(AnsweredEither) = 4
               /\ \E k \in 1..Len(metric_df.rows) :
                      /\ metric_df.rows[k][TechCategory] = Some(Go)
                      /\ metric_df.rows[k]["prop"] = Some(Fin(1, 2))

\* C7 witness: Scenario A's Proportion-Have of Go, and a grouped proportion whose
\* group holds fewer respondents than answered
C7_Witness ==
    /\ Done
    /\ Metric = ProportionHave
    /\ \/ /\ df = ScenarioA
          /\ request.groups = <<>>
          /\ \E k \in 1..Len(plot_data.rows) :
                 /\ plot_data.rows[k][TechCategory] = Some(Go)
                 /\ plot_data.rows[k]["prop"] = Some(Fin(1, 2))
       \/ /\ df = ScenarioFew
          /\ request.groups = <<"MainBranch">>
          /\ \E k \in 1..Len(plot_data.rows) :
                 plot_data.rows[k]["prop"] = Some(Fin(2, 5))

\* exploded row e (token column c) is carried by joined row j
Carries(j, e, c) ==
    /\ have_want_df.rows[j]["ResponseId"] = e["ResponseId"]
    /\ have_want_df.rows[j][c] = e[c]
    /\ SameGroups(have_want_df.rows[j], e)

\* C8: every exploded have row and every exploded want row is carried by a
\* joined row with the same record id, token and group values; no joined row
\* has both tokens null, and none has a null record id.
C8_JoinComplete ==
    Done =>
        /\ \A i \in 1..Len(have_df.rows) :
               \E j \in 1..Len(have_want_df.rows) : Carries(j, have_df.rows[i], HaveColumn)
        /\ \A i \in 1..Len(want_df.rows) :
               \E j \in 1..Len(have_want_df.rows) : Carries(j, want_df.rows[i], WantColumn)
        /\ \A j \in 1..Len(have_want_df.rows) :
               /\ ~IsNull(have_want_df.rows[j]["ResponseId"])
               /\ ~(IsNull(have_want_df.rows[j][HaveColumn])
                    /\ IsNull(have_want_df.rows[j][WantColumn]))

\* C8 witness: a join with a have-only row, a want-only row and a matched row
C8_Witness ==
    /\ Done
    /\ \E j \in 1..Len(have_want_df.rows) :
           ~IsNull(have_want_df.rows[j][HaveColumn]) /\ IsNull(have_want_df.rows[j][WantColumn])
    /\ \E j \in 1..Len(have_want_df.rows) :
           IsNull(have_want_df.rows[j][HaveColumn]) /\ ~IsNull(have_want_df.rows[j][WantColumn])
    /\ \E j \in 1..Len(have_want_df.rows) :
           ~IsNull(have_want_df.rows[j][HaveColumn]) /\ ~IsNull(have_want_df.rows[j][WantColumn])

\* the (record id, token, group values) key of a joined row
JoinedKey(r) ==
    [id     |-> r["ResponseId"],
     token  |-> Coalesce(r[HaveColumn], r[WantColumn]),
     groups |-> [g \in Range(request.groups) |-> r[g]]]

\* the same key of an exploded row with token column c
ExplodedKey(e, c) ==
    [id |-> e["ResponseId"], token |-> e[c], groups |-> [g \in Range(request.groups) |-> e[g]]]

\* C9 (as claimed): no (record id, token, group values) key is carried by more
\* than one joined row.
C9_NoDuplicateJoinedRow ==
    Done =>
        \A i, j \in 1..Len(have_want_df.rows) :
            JoinedKey(have_want_df.rows[i]) = JoinedKey(have_want_df.rows[j]) => i = j

HaveCount(k) ==
    Cardinality({i \in 1..Len(have_df.rows) : ExplodedKey(have_df.rows[i], HaveColumn) = k})

WantCount(k) ==
    Cardinality({i \in 1..Len(want_df.rows) : ExplodedKey(want_df.rows[i], WantColumn) = k})

JoinedCount(k) ==
    Cardinality({j \in 1..Len(have_want_df.rows) : JoinedKey(have_want_df.rows[j]) = k})

ExplodedKeys ==
    {ExplodedKey(have_df.rows[i], HaveColumn) : i \in 1..Len(have_df.rows)}
    \cup {ExplodedKey(want_df.rows[i], WantColumn) : i \in 1..Len(want_df.rows)}

\* C9 (amended): a key with h exploded have rows and w exploded want rows is
\* carried by h * w joined rows when both sides have it and by h + w otherwise,
\* and the joined rows carry no other key; a key is carried once exactly when
\* the record lists the token at most once in each field.
C9_JoinedRowsPerKey ==
    Done =>
        /\ \A k \in ExplodedKeys :
               JoinedCount(k) = IF HaveCount(k) > 0 /\ WantCount(k) > 0
                                THEN HaveCount(k) * WantCount(k)
                                ELSE HaveCount(k) + WantCount(k)
        /\ \A j \in 1..Len(have_want_df.rows) :
               JoinedKey(have_want_df.rows[j]) \in ExplodedKeys

\* C9 witness: a token listed twice in both fields of a record, in four joined
\* rows, beside a key of the same join that is carried once
C9_Witness ==
    /\ Done
    /\ \E k \in ExplodedKeys : HaveCount(k) = 2 /\ WantCount(k) = 2 /\ JoinedCount(k) = 4
    /\ \E k \in ExplodedKeys : JoinedCount(k) = 1

\* the rows of an exploded frame that come from the record with id cell id
RowsOf(f, id) == SelectSeq(f.rows, LAMBDA r : r["ResponseId"] = id)

\* tokens joined by ";", as the survey file writes a multi-select answer
RECURSIVE JoinTokens(_)
JoinTokens(tokens) ==
    IF Len(tokens) = 1 THEN tokens[1]
    ELSE tokens[1] \o <<";">> \o JoinTokens(Tail(tokens))

\* the rows of exploded frame f (token column c) are those claimed for record rec
ExplodedAsClaimed(f, c, rec) ==
    IF ~Answered(rec[c]) THEN RowsOf(f, rec["ResponseId"]) = <<>>
    ELSE /\ RowsOf(f, rec["ResponseId"]) # <<>>
         /\ JoinTokens([n \in 1..Len(RowsOf(f, rec["ResponseId"])) |->
                           Val(RowsOf(f, rec["ResponseId"])[n][c])]) = Val(rec[c])
         /\ \A n \in 1..Len(RowsOf(f, rec["ResponseId"])) :
                /\ ";" \notin Range(Val(RowsOf(f, rec["ResponseId"])[n][c]))
                /\ SameGroups(RowsOf(f, rec["ResponseId"])[n], rec)

\* C10: explode_column emits no row for a record whose field is null or "NA",
\* and for any other record one row per token of the field split at ";", in
\* order and multiplicity, with the record's id and group values; "C;R;C"
\* gives the three rows C, R, C.
C10_ExplodePreservesMultiplicity ==
    Done =>
        /\ \A i \in 1..Len(df.rows) :
               /\ ExplodedAsClaimed(have_df, HaveColumn, df.rows[i])
               /\ ExplodedAsClaimed(want_df, WantColumn, df.rows[i])
        /\ \A n \in 1..Len(have_df.rows) :
               \E i \in 1..Len(df.rows) : df.rows[i]["ResponseId"] = have_df.rows[n]["ResponseId"]
        /\ \A n \in 1..Len(want_df.rows) :
               \E i \in 1..Len(df.rows) : df.rows[i]["ResponseId"] = want_df.rows[n]["ResponseId"]
        /\ df = ScenarioRepeat =>
               Column(have_df, HaveColumn) = <<Some(C), Some(R), Some(C)>>

\* C10 witness: "C;R;C" exploded into C, R, C beside a record whose have field
\* is "NA" and whose want field is null, which contributes no row
C10_Witness ==
    /\ Done
    /\ df = ScenarioRepeat
    /\ Column(have_df, HaveColumn) = <<Some(C), Some(R), Some(C)>>
    /\ Column(have_df, "ResponseId") = <<Some(1), Some(1), Some(1)>>
    /\ Column(want_df, "ResponseId") = <<Some(1), Some(1)>>

---------------------------------------------------------------------------
(* Properties of the grouped ratio aggregate of the investments app, stated on *)
(* the frames the returned figures are drawn from.                             *)

\* the frames create_plot_data returned to the finished callback
RuralFrames ==
    {inv_out[figure].data :
        figure \in {x \in DOMAIN inv_out : inv_out[x].kind \in {"choropleth", "bar"}}}

Zero == Some(Fin(0, 1))

\* C4: a group whose "Number of Investments" sum is 0 gets Average Investment
\* Dollars = 0 and Prop Number of Investments SVI = 0, and a group whose
\* "Investment Dollars" sum is 0 gets Prop Investment Dollars SVI = 0.
C4_ZeroDenominatorGivesZero ==
    pc = "done" =>
        \A f \in RuralFrames : \A i \in 1..Len(f.rows) :
            /\ f.rows[i]["Number of Investments"] = Some(0) =>
                   /\ f.rows[i]["Average Investment Dollars"] = Zero
                   /\ f.rows[i]["Prop Number of Investments SVI"] = Zero
            /\ f.rows[i]["Sum Investment Dollars"] = Zero =>
                   f.rows[i]["Prop Investment Dollars SVI"] = Zero

---------------------------------------------------------------------------
(* Further properties of the survey engine *)

\* C11: every row emitted by explode_column carries a non-empty token, also
\* for a field with adjacent, leading or trailing delimiters ("C;;R", "C;").
C11_NoEmptyToken ==
    Done =>
        /\ \A i \in 1..Len(have_df.rows) : have_df.rows[i][HaveColumn] # Some(<<>>)
        /\ \A i \in 1..Len(want_df.rows) : want_df.rows[i][WantColumn] # Some(<<>>)

---------------------------------------------------------------------------
(* Further properties of the grouped ratio aggregate *)

\* the create_plot_data calls of the finished callback: the frame returned,
\* with the group_by and state arguments of the call
RuralCalls ==
    {[data |-> inv_out[figure].data,
      group_by |-> IF figure = "state_map" THEN <<"State Name", "State Code">>
                   ELSE IF figure = "county_map"
                        THEN <<"State Name", "State Code", "County", "County FIPS">>
                        ELSE <<inv_request.variable>>,
      state |-> IF figure \in {"state_map", "overall_bar_chart"} THEN Null
                ELSE inv_request.click_data] :
        figure \in {x \in DOMAIN inv_out : inv_out[x].kind \in {"choropleth", "bar"}}}

\* the rows of the global frame a call aggregates, by index
InState(call) ==
    {i \in 1..Len(inv_df.rows) :
        IsNull(call.state) \/ inv_df.rows[i]["State Code"] = call.state}

\* the rows of the call's data that share the key of output row r
OfKey(call, r) ==
    {i \in InState(call) : \A g \in Range(call.group_by) : inv_df.rows[i][g] = r[g]}

SviOfKey(call, r) ==
    {i \in OfKey(call, r) : inv_df.rows[i]["Svi Status"] = Some("Socially Vulnerable")}

RECURSIVE SumAt(_, _)
SumAt(values, S) ==
    IF S = {} THEN 0
    ELSE SumAt(values, S \ {CHOOSE i \in S : TRUE}) + values[CHOOSE i \in S : TRUE]

\* whole dollars and counts of the global frame's rows
DollarsAt == [i \in 1..Len(inv_df.rows) |-> Val(inv_df.rows[i]["Investment Dollars"]).n]

NumberAt == [i \in 1..Len(inv_df.rows) |-> Val(inv_df.rows[i]["Number of Investments"])]

\* the two proportions of output row r are as stated for its key
PropsAsClaimed(call, r) ==
    /\ SviOfKey(call, r) = {} =>
           /\ r["Prop Investment Dollars SVI"] = Zero
           /\ r["Prop Number of Investments SVI"] = Zero
    /\ (SviOfKey(call, r) # {} /\ SumAt(DollarsAt, OfKey(call, r)) # 0
                               /\ SumAt(NumberAt, OfKey(call, r)) # 0) =>
           /\ r["Prop Investment Dollars SVI"] =
                  Some(Fin(SumAt(DollarsAt, SviOfKey(call, r)), SumAt(DollarsAt, OfKey(call, r))))
           /\ r["Prop Number of Investments SVI"] =
                  Some(Fin(SumAt(NumberAt, SviOfKey(call, r)), SumAt(NumberAt, OfKey(call, r))))

\* C12: in every frame create_plot_data returns, with or without a state
\* filter, each grouping key of the (state-filtered) data has exactly one row
\* and no other key has one; a key without "Socially Vulnerable" rows has both
\* proportions 0, a key with such rows and non-zero denominators has
\* subSum/sum and subCount/count (Scenario C, group X: 3/10 and 1/2).
C12_EveryKeyOnceWithProps ==
    pc = "done" =>
        \A call \in RuralCalls :
            /\ \A i \in InState(call) :
                   Cardinality({n \in 1..Len(call.data.rows) :
                       \A g \in Range(call.group_by) :
                           call.data.rows[n][g] = inv_df.rows[i][g]}) = 1
            /\ \A n \in 1..Len(call.data.rows) :
                   /\ OfKey(call, call.data.rows[n]) # {}
                   /\ PropsAsClaimed(call, call.data.rows[n])
            /\ (inv_df = ScenarioC /\ call.group_by = <<"Program Area">>) =>
                   \E n \in 1..Len(call.data.rows) :
                       /\ call.data.rows[n]["Program Area"] = Some("Housing")
                       /\ call.data.rows[n]["Prop Investment Dollars SVI"] = Some(Fin(3, 10))
                       /\ call.data.rows[n]["Prop Number of Investments SVI"] = Some(Fin(1, 2))

\* C12 witness: Scenario C by program area within the clicked state: group X
\* with 3/10 and 1/2 beside group Y, which has no socially vulnerable row, at 0
C12_Witness ==
    /\ pc = "done"
    /\ inv_df = ScenarioC
    /\ inv_request.variable = "Program Area"
    /\ inv_out.state_bar_chart.kind = "bar"
    /\ \E n, k \in 1..Len(inv_out.state_bar_chart.data.rows) :
           /\ inv_out.state_bar_chart.data.rows[n]["Program Area"] = Some("Housing")
           /\ inv_out.state_bar_chart.data.rows[n]["Prop Investment Dollars SVI"] = Some(Fin(3, 10))
           /\ inv_out.state_bar_chart.data.rows[n]["Prop Number of Investments SVI"] = Some(Fin(1, 2))
           /\ inv_out.state_bar_chart.data.rows[k]["Program Area"] = Some("Energy")
           /\ inv_out.state_bar_chart.data.rows[k]["Prop Investment Dollars SVI"] = Zero
           /\ inv_out.state_bar_chart.data.rows[k]["Prop Number of Investments SVI"] = Zero

---------------------------------------------------------------------------
(* Properties of the pivot of a grouped request *)

\* the value column of the requested metric (lines 143 and 148)
ValueColumn == IF Metric \in {NumberHave, NumberWant} THEN "len" ELSE "prop"

\* the rows of the exclusion-filtered results for a (group values, token) pair
ResultRows(key, token) ==
    {i \in 1..Len(plot_data.rows) :
        /\ plot_data.rows[i][TechCategory] = token
        /\ \A g \in Range(request.groups) : plot_data.rows[i][g] = key[g]}

GroupKeys ==
    {[g \in Range(request.groups) |-> plot_data.rows[i][g]] : i \in 1..Len(plot_data.rows)}

\* C13: with one grouping dimension the pivot has one row per distinct group
\* value and one column per distinct token of the exclusion-filtered results;
\* a cell holds the result's value, or null (never 0) when the results have no
\* row for that (group, token) pair; a token the exclusion filter removed has
\* no column.
C13_PivotLeavesAbsentCellsNull ==
    (Done /\ Len(request.groups) = 1) =>
        /\ {pivot_data.rows[m].key : m \in 1..Len(pivot_data.rows)} = GroupKeys
        /\ Len(pivot_data.rows) = Cardinality(GroupKeys)
        /\ Range(pivot_data.columns) = TokensOf(plot_data, TechCategory)
        /\ Len(pivot_data.columns) = Cardinality(TokensOf(plot_data, TechCategory))
        /\ \A m \in 1..Len(pivot_data.rows) : \A token \in Range(pivot_data.columns) :
               IF ResultRows(pivot_data.rows[m].key, token) = {}
               THEN IsNull(pivot_data.rows[m].values[token])
               ELSE \A i \in ResultRows(pivot_data.rows[m].key, token) :
                        pivot_data.rows[m].values[token] = plot_data.rows[i][ValueColumn]
        /\ \A token \in TokensOf(metric_df, TechCategory) :
               token \notin TokensOf(exclusion_df, TechCategory) =>
                   token \notin Range(pivot_data.columns)

\* C13 witness: a grouped request whose threshold removed a token (Go) and
\* whose pivot has two rows, two columns and an unpopulated cell
C13_Witness ==
    /\ Done
    /\ Len(request.groups) = 1
    /\ df = ScenarioPivot
    /\ Some(Go) \in TokensOf(metric_df, TechCategory)
    /\ Some(Go) \notin Range(pivot_data.columns)
    /\ Len(pivot_data.rows) = 2
    /\ Len(pivot_data.columns) = 2
    /\ \E m \in 1..2 : \E token \in Range(pivot_data.columns) :
           IsNull(pivot_data.rows[m].values[token])
    /\ \E m \in 1..2 : \E token \in Range(pivot_data.columns) :
           ~IsNull(pivot_data.rows[m].values[token])

---------------------------------------------------------------------------
(* Properties of create_plot_data on requests outside the supported ones *)

\* C14: a call whose category is not one of the data's have/want categories,
\* or whose metric string is not one of the six supported ones, ends in an
\* error and returns no result.
C14_InvalidRequestRaises ==
    (/\ pc \in {"done", "raised"}
     /\ \/ Val(request.tech_category) \notin tech_categories
        \/ Val(request.metric) \notin metrics) =>
        (pc = "raised" /\ plot_data = EmptyFrame)

====
